---- MODULE Spec2Model ----
(***************************************************************************)
(* Model of the download manager of MCServer-Packer (src/downloader.py),   *)
(* of the platform adapters that build its batches (src/platforms/*.py,    *)
(* src/server_installer.py) and of the mirror-to-origin rewrite as the     *)
(* monolithic revision executes it (src/main.py).                          *)
(* It also covers the single-shot fetch x_fast_download and the mod        *)
(* classifier (deearth, deearth_main and the cache file), each in the two  *)
(* revisions the repository holds: the modules src/downloader.py and       *)
(* src/deearth.py, and the monolithic src/main.py.                         *)
(*                                                                         *)
(* A URL is a sequence of tokens: the first token is scheme+host, the      *)
(* others are the segments of the path.                                    *)
(***************************************************************************)
EXTENDS Integers, Sequences, FiniteSets, TLC

\* ---------------------------------------------------------------- bounds
MaxJobs == 2
MaxConcurrency == 2
MaxRetries == 2
MaxFaults == 2
MaxPathLen == 2
MaxRuns == 2

\* ------------------------------------------------------------- constants
CF_MIRROR_URL == "https://mod.mcimirror.top"
MR_MIRROR_URL == "https://mod.mcimirror.top"
BMCLAPI_MAVEN == "https://bmclapi2.bangbang93.com"
MODRINTH_CDN == "https://cdn.modrinth.com"
FORGE_CDN == "https://edge.forgecdn.net"

\* The attributes an instance of Config has: those set in __init__ and the
\* properties of the class.  A read of any other name raises AttributeError.
ConfigAttrs ==
    {"defaults", "settings", "CURSEFORGE_API_KEY", "use_mirror",
     "is_development", "unzip_path", "DEEARTH_CACHE_PATH",
     "download_concurrency", "display_concurrency", "download_retries",
     "deearth_concurrency", "java_memory"}

Min(a, b) == IF a <= b THEN a ELSE b

\* 2 ** n
RECURSIVE Pow2(_)
Pow2(n) == IF n <= 0 THEN 1 ELSE 2 * Pow2(n - 1)

\* ---------------------------------------------------------- URL strings
\* str.startswith, for a prefix that ends at a token boundary
StartsWith(u, prefix) ==
    /\ Len(prefix) <= Len(u)
    /\ SubSeq(u, 1, Len(prefix)) = prefix

\* str.replace(old, new) for a one-token old: every occurrence is replaced
Replace(u, old, new) == [i \in DOMAIN u |-> IF u[i] = old THEN new ELSE u[i]]

\* httpx.URL(url).path
UrlPath(u) == Tail(u)

\* downloader.py 45-49 (the same text as main.py 88-92): the origin URL the
\* handler computes for a URL that starts with a mirror host; <<>> is "".
OfficialUrl(u) ==
    IF StartsWith(u, <<MR_MIRROR_URL>>)
    THEN Replace(u, MR_MIRROR_URL, MODRINTH_CDN)
    ELSE IF StartsWith(u, <<CF_MIRROR_URL, "curseforge">>)
         THEN Replace(u, CF_MIRROR_URL, FORGE_CDN)
         ELSE <<>>

\* ------------------------------------------------------ platform adapters
\* CurseForge.download_files: the URL of one file, from the downloadUrl the
\* API returned (origin) and the mirror preference
CurseForgeUrl(origin, mirror) ==
    IF mirror THEN <<"https://mod.mcimirror.top">> \o UrlPath(origin) ELSE origin

\* Modrinth.download_files: the URL of one file, from downloads[0]
ModrinthUrl(origin, mirror) ==
    IF mirror THEN <<"https://mod.mcimirror.top">> \o UrlPath(origin) ELSE origin

\* install_server: the URL of one library, from the artifact's URL
LibraryUrl(origin) == <<BMCLAPI_MAVEN, "maven">> \o UrlPath(origin)

\* the callers of fast_download; the batches of Modrinth.download_files have
\* the URLs of CurseForge.download_files with another path
Platforms == {"curseforge", "installer"}
FileNames == {"a.jar", "b.jar"}

\* the (url, dest) pair a caller appends for one file name
JobOf(platform, name, mirror) ==
    CASE platform = "curseforge" ->
           [url |-> CurseForgeUrl(<<FORGE_CDN, "files", name>>, mirror),
            dest |-> <<"mods", name>>]
      [] OTHER ->
           [url |-> LibraryUrl(<<"https://libraries.minecraft.net", name>>),
            dest |-> <<"libraries", name>>]

\* ------------------------------------------------------------------ state
VARIABLES
    use_mirror,            \* config.use_mirror
    download_concurrency,  \* config.download_concurrency
    display_concurrency,   \* config.display_concurrency
    download_retries,      \* config.download_retries
    download_data,         \* the batch: a sequence of [url, dest]
    bpc,                   \* position of fast_download
    semaphore,             \* free permits of the semaphore
    worker_queue,          \* the display slots that are free, in queue order
    main_task,             \* completed count of the batch-level progress task
    fs,                    \* the destination paths that exist on disk
    fs0,                   \* those that existed when fast_download was called
    pc,                    \* position of each safe_download task
    url,                   \* download_worker's url of each job
    attempt,               \* download_worker's loop index of each job
    task_id,               \* the display slot of each job, 0 for None
    outcome,               \* how each job ended
    nreq,                  \* the number of requests each running job has opened
    lastfail,              \* the kind of its last failed request
    mirror_failed,         \* one of its requests to a mirror URL got an HTTP error
    faults,                \* the number of failed requests of the batch
    wait_time,             \* the sleep each job is in, in seconds; 0 outside
    sent,                  \* the URLs each running job has requested
    rw,                    \* one run of adapter + rewrite (RewriteSpec)
    revision,              \* which of the two revisions of the code runs
    xf,                    \* one call of x_fast_download
    cache_file,            \* the file at DEEARTH_CACHE_PATH
    cache,                 \* deearth_main's cache, shared by its tasks
    mods,                  \* the jar names in mods_path
    rubbish,               \* the jar names in rubbish_path
    kind,                  \* what each jar holds (see Kinds)
    mpc,                   \* position of deearth_main, or of the direct caller
    run,                   \* the number of the run of deearth_main
    written,               \* the previous run has written the cache file
    saves,                 \* the writes of the cache file the run has made
    jar_files,             \* the jars the run has listed
    de_semaphore,          \* free permits of deearth_main's semaphore
    task,                  \* completed count of deearth_main's progress task
    dpc,                   \* position of each call of deearth
    is_client_side,        \* deearth's local of each call
    mod_id,                \* deearth's local mod_id of each call
    requests,              \* the registry requests each call has sent
    moved,                 \* the calls of shutil.move each call has made
    answer,                \* the verdict a registry gave each call
    flags,                 \* the registry's answer that verdict comes from
    effects,               \* the cache writes and file moves of each call
    result                 \* how each call ended

cfgvars == <<use_mirror, download_concurrency, display_concurrency,
             download_retries, download_data, fs0>>
vars == <<use_mirror, download_concurrency, display_concurrency,
          download_retries, download_data, bpc, semaphore, worker_queue,
          main_task, fs, fs0, pc, url, attempt, task_id, outcome, nreq,
          lastfail, mirror_failed, faults, wait_time, sent, rw, revision, xf,
          cache_file, cache, mods, rubbish, kind, mpc, run, written,
          saves, jar_files, de_semaphore, task, dpc, is_client_side, mod_id,
          requests, moved, answer, flags, effects, result>>

\* the state of the download manager
dlvars == <<cfgvars, bpc, semaphore, worker_queue, main_task, fs, pc, url,
            attempt, task_id, outcome, nreq, lastfail, mirror_failed, faults,
            wait_time, sent>>
\* the state of the classifier
devars == <<cache_file, cache, mods, rubbish, kind, mpc, run, written,
            saves, jar_files, de_semaphore, task, dpc, is_client_side, mod_id,
            requests, moved, answer, flags, effects, result>>
xvars == <<revision, xf>>

Jobs == 1 .. Len(download_data)

\* one display slot per job, whatever the configured pool size
worker_count_PerJob == Len(download_data)

\* min(config.display_concurrency, len(download_data))
worker_count == Min(display_concurrency, Len(download_data))

XfIdle == [pc |-> "idle", url |-> <<>>, exists |-> FALSE, sent |-> <<>>,
           failure |-> "none", written |-> FALSE]

\* a mapping with no key
EmptyMap == [n \in {} |-> "UNIVERSAL"]

\* no run of the classifier
DeIdle ==
    /\ cache_file = [state |-> "absent", map |-> EmptyMap]
    /\ cache = [type |-> "dict", map |-> EmptyMap]
    /\ mods = {}
    /\ rubbish = {}
    /\ kind = EmptyMap
    /\ mpc = "idle"
    /\ run = 0
    /\ written = FALSE
    /\ saves = 0
    /\ jar_files = {}
    /\ de_semaphore = 0
    /\ task = 0
    /\ dpc = EmptyMap
    /\ is_client_side = EmptyMap
    /\ mod_id = EmptyMap
    /\ requests = EmptyMap
    /\ moved = EmptyMap
    /\ answer = EmptyMap
    /\ flags = EmptyMap
    /\ effects = EmptyMap
    /\ result = EmptyMap

\* no call of x_fast_download and no run of the classifier
Idle == xf = XfIdle /\ DeIdle

RwIdle == [pc |-> "idle", platform |-> "none", mirror |-> FALSE,
           origin |-> <<>>, url |-> <<>>, official |-> <<>>]

\* the batches of at most MaxJobs files; the first file is a.jar, the others
\* are that file again or another one
Batches ==
    {names \in UNION {[1 .. n -> FileNames] : n \in 0 .. MaxJobs} :
        names # <<>> => names[1] = "a.jar"}

Init ==
    /\ use_mirror \in BOOLEAN
    /\ download_concurrency \in 0 .. MaxConcurrency
    /\ display_concurrency \in 0 .. MaxConcurrency
    /\ download_retries \in 0 .. MaxRetries
    /\ \E platform \in Platforms, names \in Batches :
          download_data = [i \in DOMAIN names |-> JobOf(platform, names[i], use_mirror)]
    /\ bpc = "called"
    /\ semaphore = 0
    /\ worker_queue = <<>>
    /\ main_task = 0
    /\ fs \in {{}} \cup {{download_data[i].dest} : i \in DOMAIN download_data}
    /\ fs0 = fs
    /\ pc = [j \in Jobs |-> "pending"]
    /\ url = [j \in Jobs |-> download_data[j].url]
    /\ attempt = [j \in Jobs |-> 0]
    /\ task_id = [j \in Jobs |-> 0]
    /\ outcome = [j \in Jobs |-> "none"]
    /\ nreq = [j \in Jobs |-> 0]
    /\ lastfail = [j \in Jobs |-> "none"]
    /\ mirror_failed = [j \in Jobs |-> FALSE]
    /\ faults = 0
    /\ wait_time = [j \in Jobs |-> 0]
    /\ sent = [j \in Jobs |-> {}]
    /\ rw = RwIdle
    /\ revision = "modules"
    /\ Idle

\* ------------------------------------------------------- fast_download
\* lines 69-86 and 109: the empty batch returns at once; otherwise the
\* semaphore, the display slots and one task per job are created
Start ==
    /\ bpc = "called"
    /\ IF download_data = <<>>
       THEN /\ bpc' = "returned"
            /\ UNCHANGED <<semaphore, worker_queue>>
       ELSE /\ bpc' = "gather"
            /\ semaphore' = download_concurrency
            /\ worker_queue' = [i \in 1 .. worker_count |-> i]
    /\ UNCHANGED <<cfgvars, main_task, fs, pc, url, attempt, task_id, outcome,
                   nreq, lastfail,
                   mirror_failed, faults, rw,
                   wait_time, sent,
                   xvars, devars>>

\* ------------------------------------------- steps of download_worker
\* the next iteration of the retry loop opens a request to u
Retry(j, u) ==
    /\ pc' = [pc EXCEPT ![j] = "request"]
    /\ url' = [url EXCEPT ![j] = u]
    /\ attempt' = [attempt EXCEPT ![j] = @ + 1]
    /\ nreq' = [nreq EXCEPT ![j] = @ + 1]
    /\ sent' = [sent EXCEPT ![j] = @ \cup {u}]
    /\ wait_time' = [wait_time EXCEPT ![j] = 0]
    /\ UNCHANGED <<outcome, main_task, semaphore>>

\* download_worker returns (line 41 or 67); safe_download advances the
\* batch counter (line 100) and leaves the semaphore block
Finish(j, o) ==
    /\ pc' = [pc EXCEPT ![j] = "finally"]
    /\ outcome' = [outcome EXCEPT ![j] = o]
    /\ main_task' = main_task + 1
    /\ semaphore' = semaphore + 1
    /\ UNCHANGED <<url, attempt, nreq, wait_time, sent>>

\* the permit is taken and given back by hand, and the exception skips the
\* release
Raise_KeepsPermit(j) ==
    /\ pc' = [pc EXCEPT ![j] = "finally"]
    /\ outcome' = [outcome EXCEPT ![j] = "exception"]
    /\ UNCHANGED <<url, attempt, nreq, main_task, semaphore, wait_time, sent>>

\* no handler in safe_download: the exception ends the task
Raise_Uncaught(j) ==
    /\ pc' = [pc EXCEPT ![j] = "finally"]
    /\ outcome' = [outcome EXCEPT ![j] = "escaped"]
    /\ semaphore' = semaphore + 1
    /\ UNCHANGED <<url, attempt, nreq, main_task, wait_time, sent>>

\* an exception leaves download_worker: the semaphore block is left by the
\* exception, line 100 is not reached, the handler of lines 101-102 catches
\* and logs it
Raise(j) ==
    /\ pc' = [pc EXCEPT ![j] = "finally"]
    /\ outcome' = [outcome EXCEPT ![j] = "exception"]
    /\ semaphore' = semaphore + 1
    /\ UNCHANGED <<url, attempt, nreq, main_task, wait_time, sent>>

\* lines 61-67: sleep before the next attempt if one remains, otherwise the
\* loop ends and the job is marked failed
AfterFailure(j) ==
    IF attempt[j] < download_retries - 1
    THEN /\ pc' = [pc EXCEPT ![j] = "backoff"]
         /\ wait_time' = [wait_time EXCEPT ![j] = Pow2(attempt[j])]
         /\ UNCHANGED <<url, attempt, outcome, nreq, main_task, semaphore, sent>>
    ELSE Finish(j, "failed")

\* lines 42-57: the handler of httpx.HTTPStatusError
HandleHTTPStatusError(j) ==
    IF ~use_mirror
    THEN AfterFailure(j)
    ELSE IF "CF_MIRROR_URL" \notin ConfigAttrs
         THEN Raise(j)
         ELSE IF /\ (StartsWith(url[j], <<CF_MIRROR_URL>>)
                       \/ StartsWith(url[j], <<MR_MIRROR_URL>>))
                 /\ OfficialUrl(url[j]) # <<>>
              THEN \* continue: the next iteration, without a wait
                   IF attempt[j] < download_retries - 1
                   THEN Retry(j, OfficialUrl(url[j]))
                   ELSE /\ url' = [url EXCEPT ![j] = OfficialUrl(url[j])]
                        /\ pc' = [pc EXCEPT ![j] = "finally"]
                        /\ outcome' = [outcome EXCEPT ![j] = "failed"]
                        /\ main_task' = main_task + 1
                        /\ semaphore' = semaphore + 1
                        /\ UNCHANGED <<attempt, nreq, wait_time, sent>>
              ELSE AfterFailure(j)

\* the mirror fallback is applied to every kind of failure
HandleException_Rewrites(j) ==
    IF attempt[j] < download_retries - 1
    THEN /\ pc' = [pc EXCEPT ![j] = "backoff"]
         /\ url' = [url EXCEPT ![j] =
                       IF OfficialUrl(@) # <<>> THEN OfficialUrl(@) ELSE @]
         /\ wait_time' = [wait_time EXCEPT ![j] = Pow2(attempt[j])]
         /\ UNCHANGED <<attempt, outcome, nreq, main_task, semaphore, sent>>
    ELSE Finish(j, "failed")

\* lines 58-59: the handler of every other exception
HandleException(j) == AfterFailure(j)

\* ---------------------------------------------------- safe_download
\* the permit is taken without waiting for one to be free
AcquireSemaphore_NoWait(j) ==
    /\ bpc = "gather"
    /\ pc[j] = "pending"
    /\ semaphore' = semaphore - 1
    /\ pc' = [pc EXCEPT ![j] = "wait_slot"]
    /\ UNCHANGED <<cfgvars, bpc, worker_queue, main_task, fs, url, attempt,
                   task_id, outcome, nreq, lastfail,
                   mirror_failed, faults, rw,
                   wait_time, sent,
                   xvars, devars>>

\* line 91: async with semaphore
AcquireSemaphore(j) ==
    /\ bpc = "gather"
    /\ pc[j] = "pending"
    /\ semaphore > 0
    /\ semaphore' = semaphore - 1
    /\ pc' = [pc EXCEPT ![j] = "wait_slot"]
    /\ UNCHANGED <<cfgvars, bpc, worker_queue, main_task, fs, url, attempt,
                   task_id, outcome, nreq, lastfail,
                   mirror_failed, faults, rw,
                   wait_time, sent,
                   xvars, devars>>

\* the destination is downloaded again when it exists
GetSlot_IgnoresExisting(j) ==
    /\ pc[j] = "wait_slot"
    /\ worker_queue # <<>>
    /\ task_id' = [task_id EXCEPT ![j] = Head(worker_queue)]
    /\ worker_queue' = Tail(worker_queue)
    /\ IF download_retries <= 0
       THEN Finish(j, "failed")
       ELSE /\ pc' = [pc EXCEPT ![j] = "request"]
            /\ nreq' = [nreq EXCEPT ![j] = @ + 1]
            /\ sent' = [sent EXCEPT ![j] = @ \cup {url[j]}]
            /\ UNCHANGED <<url, attempt, outcome, main_task, semaphore, wait_time>>
    /\ UNCHANGED <<cfgvars, bpc, fs, lastfail,
                   mirror_failed, faults, rw,
                   xvars, devars>>

\* the slot is read from the head of the queue and left there
GetSlot_Peeks(j) ==
    /\ pc[j] = "wait_slot"
    /\ worker_queue # <<>>
    /\ task_id' = [task_id EXCEPT ![j] = Head(worker_queue)]
    /\ UNCHANGED worker_queue
    /\ IF download_data[j].dest \in fs
       THEN Finish(j, "skipped")
       ELSE IF download_retries <= 0
            THEN Finish(j, "failed")
            ELSE /\ pc' = [pc EXCEPT ![j] = "request"]
                 /\ nreq' = [nreq EXCEPT ![j] = @ + 1]
                 /\ sent' = [sent EXCEPT ![j] = @ \cup {url[j]}]
                 /\ UNCHANGED <<url, attempt, outcome, main_task, semaphore, wait_time>>
    /\ UNCHANGED <<cfgvars, bpc, fs, lastfail,
                   mirror_failed, faults, rw,
                   xvars, devars>>

\* lines 92-100, up to the first suspension: take a display slot, skip the
\* job when the destination exists, otherwise enter download_worker
GetSlot(j) ==
    /\ pc[j] = "wait_slot"
    /\ worker_queue # <<>>
    /\ task_id' = [task_id EXCEPT ![j] = Head(worker_queue)]
    /\ worker_queue' = Tail(worker_queue)
    /\ IF download_data[j].dest \in fs
       THEN Finish(j, "skipped")
       ELSE IF download_retries <= 0
            THEN Finish(j, "failed")
            ELSE /\ pc' = [pc EXCEPT ![j] = "request"]
                 /\ nreq' = [nreq EXCEPT ![j] = @ + 1]
                 /\ sent' = [sent EXCEPT ![j] = @ \cup {url[j]}]
                 /\ UNCHANGED <<url, attempt, outcome, main_task, semaphore, wait_time>>
    /\ UNCHANGED <<cfgvars, bpc, fs, lastfail,
                   mirror_failed, faults, rw,
                   xvars, devars>>

\* lines 31-37: the response has a success status; the destination is opened
ResponseOk(j) ==
    /\ pc[j] = "request"
    /\ pc' = [pc EXCEPT ![j] = "streaming"]
    /\ fs' = fs \cup {download_data[j].dest}
    /\ UNCHANGED <<cfgvars, bpc, semaphore, worker_queue, main_task, url,
                   attempt, task_id, outcome, nreq, lastfail,
                   mirror_failed, faults, rw,
                   wait_time, sent,
                   xvars, devars>>

\* lines 38-41: the body has been written
StreamDone(j) ==
    /\ pc[j] = "streaming"
    /\ Finish(j, "success")
    /\ UNCHANGED <<cfgvars, bpc, worker_queue, fs, task_id, lastfail,
                   mirror_failed, faults, rw,
                   xvars, devars>>

\* line 32: raise_for_status raises
ResponseHttpError(j) ==
    /\ pc[j] = "request"
    /\ faults < MaxFaults
    /\ faults' = faults + 1
    /\ lastfail' = [lastfail EXCEPT ![j] = "http"]
    /\ mirror_failed' = [mirror_failed EXCEPT ![j] =
                            @ \/ StartsWith(url[j], <<"https://mod.mcimirror.top">>)]
    /\ HandleHTTPStatusError(j)
    /\ UNCHANGED <<cfgvars, bpc, worker_queue, fs, task_id, rw,
                   xvars, devars>>

\* lines 31-40: the request or the stream fails below HTTP
TransportError(j) ==
    /\ pc[j] \in {"request", "streaming"}
    /\ faults < MaxFaults
    /\ faults' = faults + 1
    /\ lastfail' = [lastfail EXCEPT ![j] = "transport"]
    /\ HandleException(j)
    /\ UNCHANGED <<cfgvars, bpc, worker_queue, fs, task_id, mirror_failed, rw,
                   xvars, devars>>

\* lines 64-65 and the next iteration: the sleep is over
BackoffDone(j) ==
    /\ pc[j] = "backoff"
    /\ Retry(j, url[j])
    /\ UNCHANGED <<cfgvars, bpc, worker_queue, fs, task_id, lastfail,
                   mirror_failed, faults, rw,
                   xvars, devars>>

\* the display slot is not put back
ReleaseSlot_KeepsSlot(j) ==
    /\ pc[j] = "finally"
    /\ pc' = [pc EXCEPT ![j] = "done"]
    /\ task_id' = [task_id EXCEPT ![j] = 0]
    /\ attempt' = [attempt EXCEPT ![j] = 0]
    /\ nreq' = [nreq EXCEPT ![j] = 0]
    /\ lastfail' = [lastfail EXCEPT ![j] = "none"]
    /\ mirror_failed' = [mirror_failed EXCEPT ![j] = FALSE]
    /\ wait_time' = [wait_time EXCEPT ![j] = 0]
    /\ sent' = [sent EXCEPT ![j] = {}]
    /\ UNCHANGED <<cfgvars, bpc, semaphore, worker_queue, main_task, fs, url,
                   outcome, faults, rw,
                   xvars, devars>>

\* lines 103-107: after the sleep the display slot goes back to the queue
\* and the task ends; its locals and its request records end with it
ReleaseSlot(j) ==
    /\ pc[j] = "finally"
    /\ pc' = [pc EXCEPT ![j] = "done"]
    /\ IF task_id[j] # 0
       THEN worker_queue' = Append(worker_queue, task_id[j])
       ELSE UNCHANGED worker_queue
    /\ task_id' = [task_id EXCEPT ![j] = 0]
    /\ attempt' = [attempt EXCEPT ![j] = 0]
    /\ nreq' = [nreq EXCEPT ![j] = 0]
    /\ lastfail' = [lastfail EXCEPT ![j] = "none"]
    /\ mirror_failed' = [mirror_failed EXCEPT ![j] = FALSE]
    /\ wait_time' = [wait_time EXCEPT ![j] = 0]
    /\ sent' = [sent EXCEPT ![j] = {}]
    /\ UNCHANGED <<cfgvars, bpc, semaphore, main_task, fs, url, outcome,
                   faults, rw,
                   xvars, devars>>

\* line 110: gather returns when every task has ended, and raises as soon
\* as a task ends with an exception
GatherReturns ==
    /\ bpc = "gather"
    /\ \/ \A j \in Jobs : pc[j] = "done"
       \/ \E j \in Jobs : pc[j] = "done" /\ outcome[j] = "escaped"
    /\ bpc' = IF \E j \in Jobs : pc[j] = "done" /\ outcome[j] = "escaped"
              THEN "raised" ELSE "returned"
    /\ UNCHANGED <<cfgvars, semaphore, worker_queue, main_task, fs, pc, url,
                   attempt, task_id, outcome, nreq, lastfail,
                   mirror_failed, faults, rw,
                   wait_time, sent,
                   xvars, devars>>

Next ==
    \/ Start
    \/ \E j \in Jobs : AcquireSemaphore(j)
    \/ \E j \in Jobs : GetSlot(j)
    \/ \E j \in Jobs : ResponseOk(j)
    \/ \E j \in Jobs : StreamDone(j)
    \/ \E j \in Jobs : ResponseHttpError(j)
    \/ \E j \in Jobs : TransportError(j)
    \/ \E j \in Jobs : BackoffDone(j)
    \/ \E j \in Jobs : ReleaseSlot(j)
    \/ GatherReturns

Spec == Init /\ [][Next]_vars

\* the batches of CurseForge.download_files into an empty mods directory,
\* with the files a.jar, b.jar, a.jar, ... in this order
FairInit ==
    /\ Init
    /\ fs = {}
    /\ \A i \in DOMAIN download_data :
          download_data[i].dest =
              <<"mods", IF i % 2 = 1 THEN "a.jar" ELSE "b.jar">>

\* the event loop runs every task that can run, and every request and every
\* sleep ends
FairSpec == FairInit /\ [][Next]_vars /\ WF_vars(Next)

\* ------------------------------------- the rewrite on adapter-built URLs
Segments == {"files", "data", "curseforge", "a.jar"}
Paths == UNION {[1 .. n -> Segments] : n \in 1 .. MaxPathLen}

\* the download URLs the registries hand to the adapters
OriginUrls(platform) ==
    IF platform = "curseforge"
    THEN {<<h>> \o p : h \in {FORGE_CDN, "https://mediafilez.forgecdn.net"}, p \in Paths}
    ELSE {<<MODRINTH_CDN>> \o p : p \in Paths}

RewriteInit ==
    /\ use_mirror \in BOOLEAN
    /\ download_concurrency = 0
    /\ display_concurrency = 0
    /\ download_retries = 0
    /\ download_data = <<>>
    /\ bpc = "idle"
    /\ semaphore = 0
    /\ worker_queue = <<>>
    /\ main_task = 0
    /\ fs = {}
    /\ fs0 = {}
    /\ pc = <<>>
    /\ url = <<>>
    /\ attempt = <<>>
    /\ task_id = <<>>
    /\ outcome = <<>>
    /\ nreq = <<>>
    /\ lastfail = <<>>
    /\ mirror_failed = <<>>
    /\ faults = 0
    /\ wait_time = <<>>
    /\ sent = <<>>
    /\ \E platform \in {"curseforge", "modrinth"} :
         \E origin \in OriginUrls(platform) :
            rw = [RwIdle EXCEPT !.pc = "input", !.platform = platform,
                                !.mirror = use_mirror, !.origin = origin]
    /\ revision = "main.py"
    /\ Idle

\* download_files of the platform builds the URL of the job
BuildUrl ==
    /\ rw.pc = "input"
    /\ rw' = [rw EXCEPT !.pc = "built",
                        !.url = IF rw.platform = "curseforge"
                                THEN CurseForgeUrl(rw.origin, use_mirror)
                                ELSE ModrinthUrl(rw.origin, use_mirror)]
    /\ UNCHANGED <<cfgvars, bpc, semaphore, worker_queue, main_task, fs, pc,
                   url, attempt, task_id, outcome, nreq, lastfail, mirror_failed, faults,
                   wait_time, sent,
                   xvars, devars>>

\* main.py 86-102: the first request of the job fails with an HTTP status;
\* a mirror URL is rewritten and requested again, any other URL fails
MirrorHttpError ==
    /\ rw.pc = "built"
    /\ IF /\ use_mirror
          /\ (StartsWith(rw.url, <<CF_MIRROR_URL>>)
                \/ StartsWith(rw.url, <<MR_MIRROR_URL>>))
          /\ OfficialUrl(rw.url) # <<>>
       THEN rw' = [rw EXCEPT !.pc = "fallback", !.official = OfficialUrl(rw.url)]
       ELSE rw' = [rw EXCEPT !.pc = "failed"]
    /\ UNCHANGED <<cfgvars, bpc, semaphore, worker_queue, main_task, fs, pc,
                   url, attempt, task_id, outcome, nreq, lastfail, mirror_failed, faults,
                   wait_time, sent,
                   xvars, devars>>

\* main.py 97-100: the request to the origin ends, with or without success
FallbackEnds ==
    /\ rw.pc = "fallback"
    /\ \E r \in {"done", "failed"} : rw' = [rw EXCEPT !.pc = r]
    /\ UNCHANGED <<cfgvars, bpc, semaphore, worker_queue, main_task, fs, pc,
                   url, attempt, task_id, outcome, nreq, lastfail, mirror_failed, faults,
                   wait_time, sent,
                   xvars, devars>>

RewriteNext == BuildUrl \/ MirrorHttpError \/ FallbackEnds

RewriteSpec == RewriteInit /\ [][RewriteNext]_vars

\* ---------------------------------------------------- x_fast_download
\* the refactored modules (src/downloader.py, src/deearth.py, ...) and the
\* monolithic src/main.py define the same functions
Revisions == {"modules", "main.py"}

\* no batch of fast_download is running
DownloaderIdle ==
    /\ use_mirror \in BOOLEAN
    /\ download_concurrency = 0
    /\ display_concurrency = 0
    /\ download_retries = 0
    /\ download_data = <<>>
    /\ bpc = "idle"
    /\ semaphore = 0
    /\ worker_queue = <<>>
    /\ main_task = 0
    /\ fs = {}
    /\ fs0 = {}
    /\ pc = <<>>
    /\ url = <<>>
    /\ attempt = <<>>
    /\ task_id = <<>>
    /\ outcome = <<>>
    /\ nreq = <<>>
    /\ lastfail = <<>>
    /\ mirror_failed = <<>>
    /\ faults = 0
    /\ wait_time = <<>>
    /\ sent = <<>>
    /\ rw = RwIdle

\* the URLs of installers and server jars, and URLs on the mirror host
XUrls ==
    {<<h>> \o p : h \in {BMCLAPI_MAVEN, "https://maven.fabricmc.net", CF_MIRROR_URL},
                  p \in Paths}

XInit ==
    /\ DownloaderIdle
    /\ DeIdle
    /\ revision \in Revisions
    /\ \E u \in XUrls, e \in BOOLEAN :
          xf = [XfIdle EXCEPT !.pc = "called", !.url = u, !.exists = e]

\* line 113: nothing is done when the destination exists; line 115
XCall ==
    /\ xf.pc = "called"
    /\ xf' = IF xf.exists
             THEN [xf EXCEPT !.pc = "returned"]
             ELSE [xf EXCEPT !.pc = "request", !.sent = Append(@, xf.url)]
    /\ UNCHANGED <<dlvars, rw, revision, devars>>

\* downloader.py 119-120 raises DownloaderError; main.py 164-165 logs the
\* error and returns
XExcept == IF revision = "modules" THEN "raised" ELSE "returned"

\* lines 116-118: success status; the parent directory and the file are
\* written
XResponseOk ==
    /\ xf.pc = "request"
    /\ xf' = [xf EXCEPT !.pc = "returned", !.written = TRUE]
    /\ UNCHANGED <<dlvars, rw, revision, devars>>

\* lines 115-116: the request fails below HTTP, or raise_for_status raises
XRequestFails ==
    /\ xf.pc = "request"
    /\ \E f \in {"transport", "http"} :
          xf' = [xf EXCEPT !.pc = XExcept, !.failure = f]
    /\ UNCHANGED <<dlvars, rw, revision, devars>>

\* lines 117-118: mkdir or write_bytes raises OSError; write_bytes may have
\* created the file before
XWriteFails ==
    /\ xf.pc = "request"
    /\ \E w \in BOOLEAN :
          xf' = [xf EXCEPT !.pc = XExcept, !.failure = "write", !.written = w]
    /\ UNCHANGED <<dlvars, rw, revision, devars>>

XNext == XCall \/ XResponseOk \/ XRequestFails \/ XWriteFails

XSpec == XInit /\ [][XNext]_vars

\* ------------------------------------------------------ the classifier
\* src/deearth.py does "import config", which binds the module src/config.py;
\* these are the names that module defines.  A read of any other attribute
\* of it raises AttributeError.  src/main.py reads its own globals.
ConfigModuleAttrs == {"os", "yaml", "Path", "load_dotenv", "log", "Config", "config"}

Resolves(name) == revision = "main.py" \/ name \in ConfigModuleAttrs

KNOWN_UNIVERSAL_MODS == {"geckolib", "supplementaries"}

\* asyncio.Semaphore(10)
DeEarthPermits == 10

ModFiles == {"a.jar", "b.jar"}

\* what the code writes into the cache
Verdicts == {"CLIENT", "UNIVERSAL", "UNKNOWN"}

\* What a jar holds, as far as get_zip_info and deearth read it:
\*   type    "none": get_zip_info returns None (not a zip, or a descriptor
\*           that does not parse); "": a zip without descriptor; "forge",
\*           "fabric": the descriptor found;
\*   mod_id  the declared identifier, "" when there is none (for forge: no
\*           [[mods]] table);
\*   client  forge: a dependency of the mod on minecraft, forge or neoforge
\*           has side CLIENT; fabric: environment is "client";
\*   shape   "ok"; "bad_root": the fabric descriptor is valid JSON but not an
\*           object; "bad_deps": the forge dependencies are not a table.
Jar(t, id, cl, sh) == [type |-> t, mod_id |-> id, client |-> cl, shape |-> sh]

Kinds ==
    {Jar("none", "", FALSE, "ok"),
     Jar("", "", FALSE, "ok"),
     Jar("fabric", "jei", FALSE, "ok"),
     Jar("fabric", "jei", TRUE, "ok"),
     Jar("fabric", "", TRUE, "ok"),
     Jar("fabric", "geckolib", TRUE, "ok"),
     Jar("fabric", "", FALSE, "bad_root"),
     Jar("forge", "jei", FALSE, "ok"),
     Jar("forge", "jei", TRUE, "ok"),
     Jar("forge", "geckolib", TRUE, "ok"),
     Jar("forge", "jei", TRUE, "bad_deps")}

\* the mappings from some file names to verdicts
CacheMaps == UNION {[D -> Verdicts] : D \in SUBSET ModFiles}

\* the states of the cache file: absent, not readable (read_text raises),
\* not JSON, a JSON array, a JSON object
CacheFiles ==
    {[state |-> st, map |-> EmptyMap] : st \in {"absent", "unreadable", "malformed", "array"}}
    \cup {[state |-> "object", map |-> m] : m \in CacheMaps}

\* load_deearth_cache: what it returns, or "raise"
load_deearth_cache ==
    IF ~Resolves("DEEARTH_CACHE_PATH") THEN [type |-> "raise", map |-> EmptyMap]
    ELSE CASE cache_file.state = "absent" -> [type |-> "dict", map |-> EmptyMap]
           [] cache_file.state = "unreadable" -> [type |-> "raise", map |-> EmptyMap]
           [] cache_file.state = "malformed" -> [type |-> "dict", map |-> EmptyMap]
           [] cache_file.state = "array" -> [type |-> "list", map |-> EmptyMap]
           [] OTHER -> [type |-> "dict", map |-> cache_file.map]

\* the UNKNOWN verdicts are not written to the file
Dumped_DropsUnknown(c) ==
    [state |-> IF c.type = "dict" THEN "object" ELSE "array",
     map |-> [n \in {m \in DOMAIN c.map : c.map[m] # "UNKNOWN"} |-> c.map[n]]]

\* json.dumps(cache) as save_deearth_cache writes it
Dumped(c) == [state |-> IF c.type = "dict" THEN "object" ELSE "array", map |-> c.map]

\* the assignment replaces the mapping by the one entry
Assign_Resets(c, f, v) == [c EXCEPT !.map = [n \in {f} |-> v]]

\* cache[mod_name] = v on a dict
Assign(c, f, v) ==
    [c EXCEPT !.map = [n \in DOMAIN c.map \cup {f} |-> IF n = f THEN v ELSE c.map[n]]]

\* mod_name in cache
InCache(c, f) == c.type = "dict" /\ f \in DOMAIN c.map

\* the mod_id deearth reads from the descriptor
ModId(k) == IF k.type \in {"forge", "fabric"} THEN k.mod_id ELSE ""

\* the client-only rules of the local fallback
ClientRule(k) ==
    \/ k.type = "forge" /\ k.mod_id # "" /\ k.client
    \/ k.type = "fabric" /\ k.client

\* the effects of a call on the cache and on the file, in program order
Hit(v) == <<"hit", v>>
Write(v) == <<"cache", v>>
MoveOk == <<"move", "ok">>
MoveRaised == <<"move", "raised">>

\* Where one synchronous stretch of deearth leaves the call: its position
\* (a request it is waiting for, or "done"), its local is_client_side, the
\* shared cache, the number of calls of shutil.move it made, where the file
\* is, how the call ended ("none" while it runs, "name" for the file
\* name returned, "None", "raised"), and the effects of the stretch in the
\* order of its statements.
Out(p, ics, c, nm, at, res, ev) ==
    [pc |-> p, ics |-> ics, cache |-> c, nmoves |-> nm, at |-> at, res |-> res,
     ev |-> ev]

\* the call raises: the exception leaves deearth
Raised(c, nm, ev) == Out("done", FALSE, c, nm, "mods", "raised", ev)

\* the file is quarantined when UNKNOWN is recorded
Record_QuarantinesUnknown(f, v, ics, c, nm, ev) ==
    IF c.type = "dict"
    THEN Out("done", ics, Assign(c, f, v), nm,
             IF v = "UNKNOWN" THEN "rubbish" ELSE "mods", "None",
             ev \o <<Write(v)>>)
    ELSE Raised(c, nm, ev)

\* cache[mod_name] = v and return None; on a list the assignment raises
\* TypeError
Record(f, v, ics, c, nm, ev) ==
    IF c.type = "dict"
    THEN Out("done", ics, Assign(c, f, v), nm, "mods", "None", ev \o <<Write(v)>>)
    ELSE Raised(c, nm, ev)

\* the fallback returns after a move that raised and leaves the entry CLIENT
Stage4_KeepsClient(f, k, ics, c, nm, ev) ==
    IF k.type = "none"
    THEN {Record(f, "UNKNOWN", ics, c, nm, ev)}
    ELSE IF k.type # "" /\ k.shape = "ok" /\ (ics \/ ClientRule(k)) /\ c.type = "dict"
         THEN {Out("done", TRUE, Assign(c, f, "CLIENT"), nm + 1, "rubbish", "name",
                   ev \o <<Write("CLIENT"), MoveOk>>),
               Out("done", TRUE, Assign(c, f, "CLIENT"), nm + 1, "mods", "None",
                   ev \o <<Write("CLIENT"), MoveRaised>>)}
         ELSE {Record(f, "UNIVERSAL",
                      ics \/ (k.type # "" /\ k.shape = "ok" /\ ClientRule(k)),
                      c, nm, ev)}

\* deearth.py 129-156, main.py 297-324: the local fallback
Stage4(f, k, ics, c, nm, ev) ==
    IF k.type = "none"
    THEN {Record(f, "UNKNOWN", ics, c, nm, ev)}
    ELSE IF k.type # "" /\ k.shape = "ok" /\ (ics \/ ClientRule(k)) /\ c.type = "dict"
         THEN {Out("done", TRUE, Assign(c, f, "CLIENT"), nm + 1, "rubbish", "name",
                   ev \o <<Write("CLIENT"), MoveOk>>),
               \* the move raises inside the try: line 155 runs
               Record(f, "UNIVERSAL", TRUE, Assign(c, f, "CLIENT"), nm + 1,
                      ev \o <<Write("CLIENT"), MoveRaised>>)}
         ELSE {Record(f, "UNIVERSAL",
                      ics \/ (k.type # "" /\ k.shape = "ok" /\ ClientRule(k)),
                      c, nm, ev)}

\* deearth.py 108-127: the request to the DeEarth API is sent when the local
\* mod_id is not empty; main.py has no such stage
Stage3(f, k, id, ics, c, nm, ev) ==
    IF revision = "modules" /\ id # "" /\ Resolves("DEEARTH_API_URL")
    THEN {Out("de", ics, c, nm, "mods", "none", ev)}
    ELSE Stage4(f, k, ics, c, nm, ev)

\* deearth.py 87-90, main.py 276-279: the request to Modrinth is sent
Stage2(f, k, id, c) ==
    IF Resolves("get_mr_api_url")
    THEN {Out("mr_version", FALSE, c, 0, "mods", "none", <<>>)}
    ELSE Stage3(f, k, id, FALSE, c, 0, <<>>)

\* deearth.py 74-80, main.py 262-268: the fingerprint request is sent
Stage1(f, k, c) ==
    IF Resolves("get_cf_api_url")
    THEN {Out("cf", FALSE, c, 0, "mods", "none", <<>>)}
    ELSE Stage2(f, k, ModId(k), c)

\* the cache is not consulted
Begin_IgnoresCache(f, k, c) ==
    IF k.shape = "bad_root"
    THEN {Raised(c, 0, <<>>)}
    ELSE IF revision = "modules" /\ ~Resolves("KNOWN_UNIVERSAL_MODS")
         THEN {Raised(c, 0, <<>>)}
         ELSE IF ModId(k) \in KNOWN_UNIVERSAL_MODS
              THEN {Record(f, "UNIVERSAL", FALSE, c, 0, <<>>)}
              ELSE Stage1(f, k, c)

\* deearth.py 50-72, main.py 238-260: the cache, the descriptor and the
\* known-universal list
Begin(f, k, c) ==
    IF InCache(c, f)
    THEN IF c.map[f] = "CLIENT"
         THEN {Out("done", FALSE, c, 1, "rubbish", "name", <<Hit("CLIENT"), MoveOk>>),
               Raised(c, 1, <<Hit("CLIENT"), MoveRaised>>)}
         ELSE {Out("done", FALSE, c, 0, "mods", "None", <<Hit(c.map[f])>>)}
    ELSE IF k.shape = "bad_root"
         THEN {Raised(c, 0, <<>>)}
         ELSE IF revision = "modules" /\ ~Resolves("KNOWN_UNIVERSAL_MODS")
              THEN {Raised(c, 0, <<>>)}
              ELSE IF ModId(k) \in KNOWN_UNIVERSAL_MODS
                   THEN {Record(f, "UNIVERSAL", FALSE, c, 0, <<>>)}
                   ELSE Stage1(f, k, c)

\* what the fingerprint request gives: an exact match, a 200 answer without
\* match (or another status), an exception
FingerprintResponses == {"match", "nomatch", "error"}

\* the local mod_id after the fingerprint stage: main.py 270 assigns the
\* CurseForge id of the match to it, deearth.py 82 to cf_mod_id
FingerprintModId(id, r) ==
    IF revision = "main.py" /\ r = "match" THEN "cf_id" ELSE id

\* a fingerprint match is taken as the verdict UNIVERSAL
AfterFingerprint_TrustsMatch(f, k, id, c, r) ==
    IF r = "match"
    THEN {Record(f, "UNIVERSAL", FALSE, c, 0, <<>>)}
    ELSE Stage2(f, k, FingerprintModId(id, r), c)

\* deearth.py 81-90, main.py 269-279: whatever the fingerprint request
\* gave, Modrinth is asked next
AfterFingerprint(f, k, id, c, r) == Stage2(f, k, FingerprintModId(id, r), c)

\* deearth.py 90-94: version_file answers 200 and the project is requested,
\* or it does not (another status, or an exception)
AfterVersionFile(f, k, id, c) ==
    {Out("mr_project", FALSE, c, 0, "mods", "none", <<>>)}
    \cup Stage3(f, k, id, FALSE, c, 0, <<>>)

\* the values of client_side / server_side (client / server) of an answer:
\* "required", another string, no such key
FlagValues == {"required", "optional", "missing"}

\* the answers to a request for side information: a JSON object with the
\* two flags, or a failure of the request or of its decoding
SideAnswers ==
    {[status |-> "ok", client |-> cl, server |-> sv] : cl, sv \in FlagValues}
    \cup {[status |-> "error", client |-> "missing", server |-> "missing"]}

NoAnswer == [status |-> "none", client |-> "missing", server |-> "missing"]

\* only the client flag is read
ClientOnly_IgnoresServer(a) == a.client = "required"

\* deearth.py 98 and 117: client == 'required' and server != 'required'
ClientOnly(a) == a.client = "required" /\ a.server # "required"

\* the answer as a word: "error", "client", "universal" ("none" for NoAnswer)
Said(a) ==
    IF a.status # "ok" THEN a.status
    ELSE IF ClientOnly(a) THEN "client" ELSE "universal"

\* deearth.py 95-106, main.py 284-295: the project's answer a
AfterProject(f, k, id, c, a) ==
    CASE Said(a) = "client" /\ c.type = "dict" ->
           {Out("done", TRUE, Assign(c, f, "CLIENT"), 1, "rubbish", "name",
                <<Write("CLIENT"), MoveOk>>)}
           \cup Stage3(f, k, id, TRUE, Assign(c, f, "CLIENT"), 1,
                       <<Write("CLIENT"), MoveRaised>>)
      [] Said(a) = "universal" /\ c.type = "dict" ->
           {Record(f, "UNIVERSAL", FALSE, c, 0, <<>>)}
      [] OTHER -> Stage3(f, k, id, Said(a) = "client", c, 0, <<>>)

\* deearth.py 112-127: the DeEarth API's answer a (status "error": not 200,
\* or the request or the JSON fails)
AfterDeEarth(f, k, ics, c, a) ==
    CASE a.status # "ok" -> Stage4(f, k, ics, c, 0, <<>>)
      [] a.status = "ok" /\ c.type # "dict" ->
           Stage4(f, k, ics \/ ClientOnly(a), c, 0, <<>>)
      [] a.status = "ok" /\ c.type = "dict" /\ (ics \/ ClientOnly(a)) ->
           {Out("done", TRUE, Assign(c, f, "CLIENT"), 1, "rubbish", "name",
                <<Write("CLIENT"), MoveOk>>)}
           \cup Stage4(f, k, TRUE, Assign(c, f, "CLIENT"), 1,
                       <<Write("CLIENT"), MoveRaised>>)
      [] OTHER -> {Record(f, "UNIVERSAL", FALSE, c, 0, <<>>)}

\* the calls of deearth of the run
Calls == jar_files

\* the locals of the calls when none has started
NoCalls ==
    /\ task = 0
    /\ saves = 0
    /\ is_client_side = [f \in ModFiles |-> FALSE]
    /\ mod_id = [f \in ModFiles |-> ""]
    /\ requests = [f \in ModFiles |-> {}]
    /\ moved = [f \in ModFiles |-> 0]
    /\ answer = [f \in ModFiles |-> "none"]
    /\ flags = [f \in ModFiles |-> NoAnswer]
    /\ effects = [f \in ModFiles |-> <<>>]
    /\ result = [f \in ModFiles |-> "none"]

\* the content of a jar that is not in mods_path plays no part
Absent == Jar("", "", FALSE, "ok")

\* deearth_main is called on a mods directory and a cache file, or deearth
\* is called on one jar with the cache of its caller
DeInit ==
    /\ DownloaderIdle
    /\ xf = XfIdle
    /\ revision \in Revisions
    /\ rubbish = {}
    /\ written = FALSE
    /\ NoCalls
    /\ \/ /\ mpc = "called"
          /\ run = 1
          /\ cache_file \in CacheFiles
          /\ cache = [type |-> "unset", map |-> EmptyMap]
          /\ mods \in SUBSET ModFiles
          /\ kind \in [ModFiles -> Kinds]
          /\ \A f \in ModFiles \ mods : kind[f] = Absent
          /\ jar_files = {}
          /\ de_semaphore = 0
          /\ dpc = [f \in ModFiles |-> "idle"]
       \/ /\ mpc = "direct"
          /\ run = 0
          /\ cache_file = [state |-> "absent", map |-> EmptyMap]
          /\ \E m \in CacheMaps : cache = [type |-> "dict", map |-> m]
          /\ mods = {"a.jar"}
          /\ kind \in [ModFiles -> Kinds]
          /\ kind["b.jar"] = Absent
          /\ jar_files = {"a.jar"}
          /\ de_semaphore = DeEarthPermits
          /\ dpc = [f \in ModFiles |-> IF f = "a.jar" THEN "pending" ELSE "idle"]

\* deearth_main, lines 158-186: the jars are listed, the cache is loaded and
\* one task per jar is created; an exception of load_deearth_cache ends the
\* run
DeStart ==
    /\ mpc = "called"
    /\ jar_files' = mods
    /\ IF load_deearth_cache.type = "raise"
       THEN /\ mpc' = "raised"
            /\ UNCHANGED <<cache, de_semaphore, dpc>>
       ELSE /\ mpc' = "gather"
            /\ cache' = load_deearth_cache
            /\ de_semaphore' = DeEarthPermits
            /\ dpc' = [f \in ModFiles |-> IF f \in mods THEN "pending" ELSE "idle"]
    /\ UNCHANGED <<dlvars, rw, xvars, cache_file, mods, rubbish, kind, run,
                   written, saves, task, is_client_side, mod_id, requests,
                   moved, answer, flags, effects, result>>

\* the call of f goes where the stretch o leaves it; when the call ends,
\* process_mod advances the progress task unless the call raised (line 183)
\* and leaves the semaphore block; entered says that the stretch began with
\* the acquisition of the permit
Apply(f, o, entered) ==
    /\ dpc' = [dpc EXCEPT ![f] = o.pc]
    /\ is_client_side' = [is_client_side EXCEPT ![f] = o.ics]
    /\ requests' = [requests EXCEPT ![f] = IF o.pc = "done" THEN @ ELSE @ \cup {o.pc}]
    /\ cache' = o.cache
    /\ moved' = [moved EXCEPT ![f] = @ + o.nmoves]
    /\ mods' = IF o.at = "rubbish" THEN mods \ {f} ELSE mods
    /\ rubbish' = IF o.at = "rubbish" THEN rubbish \cup {f} ELSE rubbish
    /\ result' = [result EXCEPT ![f] = o.res]
    /\ effects' = [effects EXCEPT ![f] = @ \o o.ev]
    /\ task' = IF o.pc = "done" /\ o.res # "raised" THEN task + 1 ELSE task
    /\ de_semaphore' = de_semaphore + (IF o.pc = "done" THEN 1 ELSE 0)
                                    - (IF entered THEN 1 ELSE 0)
    /\ UNCHANGED <<dlvars, rw, xvars, cache_file, kind, mpc, run, written,
                   saves, jar_files>>

\* the tasks run while gather waits, and go on when it has raised
Running == mpc \in {"gather", "direct", "raised"}

\* process_mod 180-182 and deearth up to its first request
DeEarthBegins(f) ==
    /\ Running
    /\ dpc[f] = "pending"
    /\ de_semaphore > 0
    /\ \E o \in Begin(f, kind[f], cache) : Apply(f, o, TRUE)
    /\ mod_id' = [mod_id EXCEPT ![f] =
                     IF InCache(cache, f) THEN @ ELSE ModId(kind[f])]
    /\ UNCHANGED <<answer, flags>>

\* deearth.py 81-90: the fingerprint request ends
FingerprintResponse(f) ==
    /\ Running
    /\ dpc[f] = "cf"
    /\ \E r \in FingerprintResponses :
          /\ \E o \in AfterFingerprint(f, kind[f], mod_id[f], cache, r) :
                Apply(f, o, FALSE)
          /\ mod_id' = [mod_id EXCEPT ![f] = FingerprintModId(@, r)]
    /\ UNCHANGED <<answer, flags>>

\* deearth.py 90-94: the request for the version of the file ends
VersionFileResponse(f) ==
    /\ Running
    /\ dpc[f] = "mr_version"
    /\ \E o \in AfterVersionFile(f, kind[f], mod_id[f], cache) :
          Apply(f, o, FALSE)
    /\ UNCHANGED <<answer, flags, mod_id>>

\* deearth.py 95-106: the request for the project ends
ProjectResponse(f) ==
    /\ Running
    /\ dpc[f] = "mr_project"
    /\ \E a \in SideAnswers :
          /\ \E o \in AfterProject(f, kind[f], mod_id[f], cache, a) :
                Apply(f, o, FALSE)
          /\ answer' = [answer EXCEPT ![f] = IF a.status = "ok" THEN Said(a) ELSE @]
          /\ flags' = [flags EXCEPT ![f] = IF a.status = "ok" THEN a ELSE @]
    /\ UNCHANGED mod_id

\* deearth.py 112-127: the request to the DeEarth API ends
DeEarthResponse(f) ==
    /\ Running
    /\ dpc[f] = "de"
    /\ \E a \in SideAnswers :
          /\ \E o \in AfterDeEarth(f, kind[f], is_client_side[f], cache, a) :
                Apply(f, o, FALSE)
          /\ answer' = [answer EXCEPT ![f] = IF a.status = "ok" THEN Said(a) ELSE @]
          /\ flags' = [flags EXCEPT ![f] = IF a.status = "ok" THEN a ELSE @]
    /\ UNCHANGED mod_id

\* lines 186-189: gather raises the first exception of a task; when every
\* task has returned the cache is saved and deearth_main returns
GatherEnds ==
    /\ mpc = "gather"
    /\ IF \E f \in Calls : result[f] = "raised"
       THEN /\ mpc' = "raised"
            /\ UNCHANGED <<cache_file, saves>>
       ELSE /\ \A f \in Calls : dpc[f] = "done"
            /\ IF Resolves("DEEARTH_CACHE_PATH")
               THEN /\ mpc' = "returned"
                    /\ cache_file' = Dumped(cache)
                    /\ saves' = saves + 1
               ELSE /\ mpc' = "raised"
                    /\ UNCHANGED <<cache_file, saves>>
    /\ UNCHANGED <<dlvars, rw, xvars, cache, mods, rubbish, kind, run, written,
                   jar_files, de_semaphore, task, dpc, is_client_side, mod_id,
                   requests, moved, answer, flags, effects, result>>

\* the program is run again on the same directories: the tasks of the run
\* before are gone
Rerun ==
    /\ mpc \in {"returned", "raised"}
    /\ run >= 1
    /\ run < MaxRuns
    /\ run' = run + 1
    /\ mpc' = "called"
    /\ written' = (mpc = "returned")
    /\ cache' = [type |-> "unset", map |-> EmptyMap]
    /\ jar_files' = {}
    /\ de_semaphore' = 0
    /\ dpc' = [f \in ModFiles |-> "idle"]
    /\ task' = 0
    /\ saves' = 0
    /\ is_client_side' = [f \in ModFiles |-> FALSE]
    /\ mod_id' = [f \in ModFiles |-> ""]
    /\ requests' = [f \in ModFiles |-> {}]
    /\ moved' = [f \in ModFiles |-> 0]
    /\ answer' = [f \in ModFiles |-> "none"]
    /\ flags' = [f \in ModFiles |-> NoAnswer]
    /\ effects' = [f \in ModFiles |-> <<>>]
    /\ result' = [f \in ModFiles |-> "none"]
    /\ UNCHANGED <<dlvars, rw, xvars, cache_file, mods, rubbish, kind>>

\* No call ever waits for the DeEarth API (see NoDeEarthRequest): in
\* src/deearth.py line 70 raises before, and src/main.py has no such stage;
\* DeEarthResponse is therefore no step of the program.
DeNext ==
    \/ DeStart
    \/ \E f \in ModFiles : DeEarthBegins(f)
    \/ \E f \in ModFiles : FingerprintResponse(f)
    \/ \E f \in ModFiles : VersionFileResponse(f)
    \/ \E f \in ModFiles : ProjectResponse(f)
    \/ GatherEnds
    \/ Rerun

DeSpec == DeInit /\ [][DeNext]_vars

\* ------------------------------------------------------------ properties
\* the job is inside the body of "async with semaphore"
InSemaphore(j) == pc[j] \in {"wait_slot", "request", "streaming", "backoff"}

\* the job is executing download_worker
InWorker(j) == pc[j] \in {"request", "streaming", "backoff"}

Terminal == {"success", "skipped", "failed", "exception"}

\* C1: at most download_concurrency jobs are inside the semaphore block.
C1_SemaphoreBound ==
    Cardinality({j \in Jobs : InSemaphore(j)}) <= download_concurrency

\* the semaphore is full after a failed request while another job waits for it
C1_Witness ==
    /\ download_concurrency >= 1
    /\ Cardinality({j \in Jobs : InSemaphore(j)}) = download_concurrency
    /\ \E j \in Jobs : pc[j] = "pending"
    /\ \E j \in Jobs : InSemaphore(j) /\ lastfail[j] # "none"

\* C2: at most min(display_concurrency, number of jobs) jobs execute
\* download_worker, and each of them holds a display slot.
C2_DisplayBound ==
    /\ Cardinality({j \in Jobs : InWorker(j)})
          <= Min(display_concurrency, Len(download_data))
    /\ \A j \in Jobs : InWorker(j) => task_id[j] # 0

\* every slot is in use and a job that has its permit waits for a slot
C2_Witness ==
    /\ display_concurrency >= 1
    /\ Cardinality({j \in Jobs : InWorker(j)}) = display_concurrency
    /\ \E j \in Jobs : pc[j] = "wait_slot"

\* C3: when fast_download returns, every permit is free and every display
\* slot is back in worker_queue, whatever the outcomes of the jobs were.
C3_AllReleased ==
    (bpc = "returned" /\ download_data # <<>>) =>
        /\ semaphore = download_concurrency
        /\ Len(worker_queue) = Min(display_concurrency, Len(download_data))
        /\ {worker_queue[i] : i \in DOMAIN worker_queue}
              = 1 .. Min(display_concurrency, Len(download_data))

\* the batch has returned after one job raised and another used up its budget
C3_Witness ==
    /\ bpc = "returned"
    /\ \E j \in Jobs : outcome[j] = "exception"
    /\ \E j \in Jobs : outcome[j] = "failed"
    /\ download_retries >= 1

\* C4: fast_download never raises, and when it returns every job of the
\* batch has run to its own end.
C4_NoAbort ==
    /\ bpc # "raised"
    /\ bpc = "returned" =>
          \A j \in Jobs : pc[j] = "done" /\ outcome[j] \in Terminal

\* the batch has returned with one job that raised and one that succeeded
C4_Witness ==
    /\ bpc = "returned"
    /\ \E j \in Jobs : outcome[j] = "exception"
    /\ \E j \in Jobs : outcome[j] = "success"

\* C5: when fast_download returns, main_task has been advanced once per job.
C5_EveryJobCounted ==
    bpc = "returned" => main_task = Len(download_data)

\* C6 as stated: under fair scheduling every batch returns, for every
\* configured download_concurrency, display_concurrency and retry count.
C6_AlwaysReturns == <>(bpc = "returned")

\* C6 amended: with download_concurrency >= 1 and display_concurrency >= 1
\* every batch returns under fair scheduling, for every retry count; and
\* fast_download returns only after every job has ended.
C6_JoinTerminates ==
    /\ (download_concurrency >= 1 /\ display_concurrency >= 1)
           => <>(bpc = "returned")
    /\ [](bpc = "returned" => \A j \in Jobs : pc[j] = "done")

\* a batch with more jobs than permits and slots has returned, after a job
\* used its whole retry budget
C6_Witness ==
    /\ bpc = "returned"
    /\ download_concurrency >= 1 /\ download_concurrency < Len(download_data)
    /\ display_concurrency >= 1 /\ display_concurrency < Len(download_data)
    /\ \E j \in Jobs : outcome[j] = "failed"
    /\ download_retries >= 2

\* download_worker has ended without a successful request, or the job has
\* raised; the job is between line 100 and the end of its finally block
EndedUnsuccessful(j) ==
    /\ pc[j] = "finally"
    /\ outcome[j] \notin {"success", "skipped"}

\* C7: a job whose every request fails makes exactly download_retries
\* requests and is then marked failed.
C7_ExactBudget ==
    \A j \in Jobs :
        EndedUnsuccessful(j) =>
            nreq[j] = download_retries /\ outcome[j] = "failed"

\* C8: a job whose mirror URL fails with an HTTP error and whose other
\* requests fail too makes exactly download_retries requests in all, and
\* ends failed.
C8_SharedCounter ==
    \A j \in Jobs :
        (/\ EndedUnsuccessful(j)
         /\ use_mirror
         /\ mirror_failed[j])
        => (nreq[j] = download_retries /\ outcome[j] = "failed")

\* C9: the url of a job is changed only by a step that handles an HTTP
\* status failure, with use_mirror set and the url starting with a mirror
\* host; every request goes to the url the job then has, the first to the
\* URL of the batch entry.
C9_RewriteOnlyOnMirrorHttp ==
    [][\A j \in Jobs :
          /\ nreq[j] = 0 => url[j] = download_data[j].url
          /\ url'[j] # url[j] =>
                /\ pc[j] = "request"
                /\ lastfail'[j] = "http"
                /\ faults' = faults + 1
                /\ use_mirror
                /\ StartsWith(url[j], <<"https://mod.mcimirror.top">>)]_vars

\* with use_mirror set, a mirror URL is requested again, unchanged, after a
\* transport-level failure
C9_Witness ==
    \E j \in Jobs :
        /\ use_mirror
        /\ pc[j] = "request"
        /\ nreq[j] = 2
        /\ lastfail[j] = "transport"
        /\ StartsWith(url[j], <<"https://mod.mcimirror.top">>)
        /\ url[j] = download_data[j].url

\* the origin host of a platform
OriginHost(platform) ==
    IF platform = "curseforge" THEN "https://edge.forgecdn.net"
    ELSE "https://cdn.modrinth.com"

\* C10: the rewrite sends a mirror URL built by a platform adapter to the
\* origin host of that platform, with the path of the URL unchanged.
C10_RewriteToOwnOrigin ==
    rw.pc = "fallback" =>
        rw.official = <<OriginHost(rw.platform)>> \o UrlPath(rw.url)

\* C11: a job whose destination exists when safe_download tests it (line 95)
\* opens no request, does not write the destination and advances the batch
\* counter; until its task ends it opens no request and writes nothing.
C11_SkipsExisting ==
    [][\A j \in Jobs :
          /\ (pc[j] = "wait_slot" /\ pc'[j] # "wait_slot"
                 /\ download_data[j].dest \in fs) =>
                /\ outcome'[j] = "skipped"
                /\ nreq'[j] = 0
                /\ faults' = faults
                /\ fs' = fs
                /\ main_task' = main_task + 1
          /\ (outcome[j] = "skipped" /\ pc'[j] # pc[j]) =>
                /\ nreq'[j] = 0
                /\ fs' = fs
                /\ main_task' = main_task]_vars

\* a batch has returned in which one job was skipped and another one
\* downloaded its file
C11_Witness ==
    /\ bpc = "returned"
    /\ \E j \in Jobs : outcome[j] = "skipped" /\ download_data[j].dest \in fs
    /\ \E j \in Jobs : outcome[j] = "success"
    /\ main_task = Len(download_data)

\* C12: x_fast_download sends at most one request, to the URL it was given;
\* when that request fails (transport error or HTTP error status) the call
\* ends by raising DownloaderError and the destination is not written.
C12_SingleShotRaises ==
    /\ Len(xf.sent) <= 1
    /\ xf.sent # <<>> => xf.sent = <<xf.url>>
    /\ xf.failure \in {"transport", "http"} => xf.pc = "raised" /\ ~xf.written

\* no request is ever sent to the DeEarth API
NoDeEarthRequest == \A f \in ModFiles : dpc[f] # "de" /\ "de" \notin requests[f]

\* C13: when deearth is called on a file whose name is a key of the cache,
\* the call ends at once without a registry request and without a change of
\* the cache; shutil.move is called iff the cached value is CLIENT, no file
\* with another cached value leaves the mods directory, and a file cached as
\* CLIENT is in the quarantine directory unless the move raised.
C13_CacheHitIsTerminal ==
    [][\A f \in ModFiles :
          (dpc[f] = "pending" /\ dpc'[f] \notin {"pending", "idle"}
             /\ InCache(cache, f)) =>
             /\ dpc'[f] = "done"
             /\ requests'[f] = {}
             /\ cache' = cache
             /\ moved'[f] = (IF cache.map[f] = "CLIENT" THEN 1 ELSE 0)
             /\ cache.map[f] # "CLIENT" =>
                   mods' = mods /\ rubbish' = rubbish /\ result'[f] = "None"
             /\ cache.map[f] = "CLIENT" =>
                   \/ result'[f] = "raised" /\ mods' = mods /\ rubbish' = rubbish
                   \/ /\ result'[f] = "name"
                      /\ mods' = mods \ {f}
                      /\ rubbish' = rubbish \cup {f}]_vars

\* src/deearth.py's deearth has moved a jar cached as CLIENT
C13_Witness ==
    /\ revision = "modules"
    /\ \E f \in ModFiles :
          /\ dpc[f] = "done"
          /\ InCache(cache, f) /\ cache.map[f] = "CLIENT"
          /\ requests[f] = {}
          /\ f \in rubbish /\ f \notin mods

\* C14: in a run of deearth_main that follows a run which has written the
\* cache file, no registry request is sent, no file enters or leaves the
\* quarantine directory or the mods directory, and the cache file keeps its
\* contents.
C14_SecondRunIdempotent ==
    [][(run >= 2 /\ written) =>
          /\ requests' = requests
          /\ rubbish' = rubbish
          /\ mods' = mods
          /\ cache_file' = cache_file]_vars

\* the second run has returned; the first one quarantined a jar and cached
\* another one as UNKNOWN, which the second run found in the mods directory
C14_Witness ==
    /\ run = 2 /\ written /\ mpc = "returned"
    /\ rubbish # {}
    /\ cache_file.state = "object"
    /\ \E f \in mods :
          /\ dpc[f] = "done" /\ result[f] = "None"
          /\ f \in DOMAIN cache_file.map /\ cache_file.map[f] = "UNKNOWN"

\* the step is the first stretch of deearth on f, which the cache does not
\* hold
StartsUncached(f) ==
    /\ dpc[f] = "pending"
    /\ dpc'[f] \notin {"pending", "idle"}
    /\ ~InCache(cache, f)

\* C15: when deearth is called on an uncached file whose declared mod id is
\* in KNOWN_UNIVERSAL_MODS, the call ends at once with UNIVERSAL recorded
\* for the file, without a registry request and with the file in place.
C15_KnownUniversalOverride ==
    [][\A f \in ModFiles :
          (StartsUncached(f) /\ ModId(kind[f]) \in KNOWN_UNIVERSAL_MODS) =>
             /\ dpc'[f] = "done"
             /\ result'[f] = "None"
             /\ requests'[f] = {}
             /\ InCache(cache', f) /\ cache'.map[f] = "UNIVERSAL"
             /\ moved'[f] = 0
             /\ f \in mods']_vars

\* C16: when a registry has answered for a file, the verdict recorded for
\* the file at the end of the call is the registry's: CLIENT when
\* client_side is required and server_side is not, UNIVERSAL otherwise,
\* whatever the embedded descriptor holds.
C16_RegistryVerdictWins ==
    \A f \in ModFiles :
        (dpc[f] = "done" /\ answer[f] # "none" /\ cache.type = "dict") =>
            /\ InCache(cache, f)
            /\ cache.map[f] = (IF answer[f] = "client" THEN "CLIENT" ELSE "UNIVERSAL")

\* C17: when a call of deearth made by deearth_main ends with an exception,
\* ERROR is recorded for its file, the file is still in the mods directory,
\* and deearth_main does not end with an exception.
C17_FailureIsolated ==
    \A f \in Calls :
        (run >= 1 /\ result[f] = "raised") =>
            /\ InCache(cache, f) /\ cache.map[f] = "ERROR"
            /\ f \in mods
            /\ mpc # "raised"

\* the step ends the call of deearth on f, which the cache did not hold,
\* without an exception and without a verdict of a registry
EndsWithoutRegistry(f) ==
    /\ dpc[f] \notin {"idle", "done"}
    /\ dpc'[f] = "done"
    /\ ~InCache(cache, f)
    /\ result'[f] # "raised"
    /\ answer'[f] = "none"
    /\ ModId(kind[f]) \notin KNOWN_UNIVERSAL_MODS

\* C18: an uncached file without a verdict of a registry, which holds no
\* descriptor or a descriptor that matches no client-only rule, is recorded
\* as UNKNOWN.
C18_NoSignalIsUnknown ==
    [][\A f \in ModFiles :
          (EndsWithoutRegistry(f) /\ ~ClientRule(kind[f])) =>
              InCache(cache', f) /\ cache'.map[f] = "UNKNOWN"]_vars

\* the step ends the call of deearth on f, an uncached jar with a fabric
\* descriptor and no known-universal id, for which no registry gave a verdict
FabricFallback(f) ==
    /\ dpc[f] \notin {"idle", "done"}
    /\ dpc'[f] = "done"
    /\ ~InCache(cache, f)
    /\ answer'[f] = "none"
    /\ kind[f].type = "fabric" /\ kind[f].shape = "ok"
    /\ ModId(kind[f]) \notin KNOWN_UNIVERSAL_MODS

\* C19: such a call ends with the file in the quarantine directory and
\* CLIENT recorded when the descriptor's environment is client, and with
\* the file in place and not recorded as CLIENT for any other environment.
C19_FabricClientFallback ==
    [][\A f \in ModFiles :
          FabricFallback(f) =>
             IF kind[f].client
             THEN /\ result'[f] = "name"
                  /\ f \in rubbish' /\ f \notin mods'
                  /\ InCache(cache', f) /\ cache'.map[f] = "CLIENT"
             ELSE /\ f \in mods'
                  /\ ~(InCache(cache', f) /\ cache'.map[f] = "CLIENT")]_vars

\* C20: whatever the state of the cache file, load_deearth_cache returns a
\* mapping to deearth_main, and the empty mapping when the file is absent or
\* malformed.
C20_LoadNeverThrows ==
    [][(mpc = "called" /\ mpc' # "called") =>
          /\ mpc' = "gather"
          /\ cache'.type = "dict"
          /\ cache_file.state \in {"absent", "malformed"} => cache'.map = EmptyMap]_vars

\* the step is a failed request of job j (a handler of download_worker runs)
RequestFails(j) ==
    /\ pc[j] \in {"request", "streaming"}
    /\ faults' = faults + 1
    /\ <<pc'[j], nreq'[j], url'[j], outcome'[j]>> # <<pc[j], nreq[j], url[j], outcome[j]>>

\* the failure is an HTTP error of a mirror URL for which the handler has an
\* origin URL, with the mirror preference on
MirrorFallback(j) ==
    /\ lastfail'[j] = "http"
    /\ use_mirror
    /\ StartsWith(url[j], <<"https://mod.mcimirror.top">>)
    /\ OfficialUrl(url[j]) # <<>>

\* C22: after failed attempt i that is no mirror fallback and not the last
\* one the job sleeps 2^i seconds and then starts attempt i+1; after the last
\* attempt it does not sleep; a mirror fallback starts the next attempt
\* without a sleep.
C22_BackoffSchedule ==
    [][\A j \in Jobs :
          /\ (RequestFails(j) /\ attempt[j] < download_retries - 1
                 /\ ~MirrorFallback(j)) =>
                pc'[j] = "backoff" /\ wait_time'[j] = Pow2(attempt[j])
          /\ (pc[j] = "backoff" /\ pc'[j] # "backoff") =>
                pc'[j] = "request" /\ attempt'[j] = attempt[j] + 1
          /\ (RequestFails(j) /\ attempt[j] >= download_retries - 1) =>
                pc'[j] # "backoff" /\ wait_time'[j] = 0
          /\ (RequestFails(j) /\ attempt[j] < download_retries - 1
                 /\ MirrorFallback(j)) =>
                /\ pc'[j] = "request"
                /\ attempt'[j] = attempt[j] + 1
                /\ wait_time'[j] = 0]_vars

\* C23: a job that ends without success after a request to a mirror URL got
\* an HTTP error, with the mirror preference on, has requested the origin URL.
C23_OriginTriedBeforeFailure ==
    \A j \in Jobs :
        (EndedUnsuccessful(j) /\ use_mirror /\ mirror_failed[j]) =>
            OfficialUrl(download_data[j].url) \in sent[j]

\* C21: the cache file is written once in every run of deearth_main, when
\* every task of the run has ended, and it keeps its contents until then.
C21_SavedOnceAfterJoin ==
    [][/\ (saves' # saves /\ saves' # 0) =>
             saves' = 1 /\ \A f \in Calls : dpc[f] = "done"
       /\ cache_file' # cache_file => saves' = saves + 1
       /\ (mpc \in {"called", "gather"} /\ mpc' \in {"returned", "raised"}) =>
             saves' = 1]_vars

\* C24: in the effects of every call, a write of CLIENT into the cache comes
\* after the move of the file to the quarantine directory.
C24_MoveBeforeRecord ==
    \A f \in ModFiles :
        \A i \in DOMAIN effects[f] :
            effects[f][i] = Write("CLIENT") =>
                \E j \in 1 .. (i - 1) : effects[f][j] = MoveOk

\* the last effect of the call on f is the record, or the cache hit, of a
\* verdict that is not CLIENT
EndsNotClient(f) ==
    /\ dpc[f] = "done"
    /\ effects[f] # <<>>
    /\ effects[f][Len(effects[f])] \in
          {Write("UNIVERSAL"), Write("UNKNOWN"), Hit("UNIVERSAL"), Hit("UNKNOWN")}

\* C25: when a call of deearth has recorded UNIVERSAL or UNKNOWN for its
\* file, or has found such a value in the cache, the file is in the mods
\* directory and the call has put nothing into the quarantine directory.
C25_OtherVerdictsLeaveFile ==
    \A f \in Calls :
        EndsNotClient(f) =>
            /\ f \in mods
            /\ f \notin rubbish
            /\ \A i \in DOMAIN effects[f] : effects[f][i] # MoveOk

\* in src/main.py a call has recorded UNKNOWN for a jar that is no zip, and
\* another one UNIVERSAL after its move to quarantine raised
C25_Witness ==
    /\ revision = "main.py"
    /\ \E f \in Calls :
          /\ dpc[f] = "done" /\ f \in mods
          /\ effects[f] = <<Write("UNKNOWN")>>
    /\ \E f \in Calls :
          /\ dpc[f] = "done" /\ f \in mods /\ moved[f] = 1
          /\ effects[f] = <<Write("CLIENT"), MoveRaised, Write("UNIVERSAL")>>

\* C26: a call of deearth that has ended has left an entry for its file in
\* the cache, with one of the four verdicts as its value; so when the join
\* of deearth_main is over every listed jar is a key of the cache.
C26_EveryCallLeavesEntry ==
    \A f \in Calls :
        dpc[f] = "done" =>
            /\ InCache(cache, f)
            /\ cache.map[f] \in {"CLIENT", "UNIVERSAL", "UNKNOWN", "ERROR"}

\* the verdicts the call on f has written into the cache, in order
RECURSIVE Writes(_)
Writes(ev) ==
    IF ev = <<>> THEN <<>>
    ELSE IF Head(ev)[1] = "cache" THEN <<Head(ev)[2]>> \o Writes(Tail(ev))
         ELSE Writes(Tail(ev))

\* C27: an entry CLIENT or UNIVERSAL of the cache is never changed to
\* another verdict: not by a later write of the same call (also after a move
\* that raised), not by another step of the batch, and the cache a later
\* run loads still holds it.
C27_CacheMonotonic ==
    /\ [](\A f \in ModFiles :
            \A i, j \in DOMAIN Writes(effects[f]) :
               (i < j /\ Writes(effects[f])[i] \in {"CLIENT", "UNIVERSAL"}) =>
                  Writes(effects[f])[j] = Writes(effects[f])[i])
    /\ [][\A f \in ModFiles :
            (InCache(cache, f) /\ cache.map[f] \in {"CLIENT", "UNIVERSAL"}
               /\ cache'.type = "dict") =>
                  InCache(cache', f) /\ cache'.map[f] = cache.map[f]]_vars
    /\ [][\A f \in ModFiles :
            (run >= 1 /\ cache_file.state = "object" /\ f \in DOMAIN cache_file.map
               /\ cache_file.map[f] \in {"CLIENT", "UNIVERSAL"}) =>
                  /\ cache_file'.state = "object"
                  /\ f \in DOMAIN cache_file'.map
                  /\ cache_file'.map[f] = cache_file.map[f]]_vars

\* the step is the first stretch of deearth on f, a readable jar the cache
\* does not hold and whose id is not known as universal
StartsLookup(f) ==
    /\ StartsUncached(f)
    /\ kind[f].shape # "bad_root"
    /\ ModId(kind[f]) \notin KNOWN_UNIVERSAL_MODS

\* C28: a call that is neither a cache hit nor a known-universal mod asks the
\* digest registry (after the fingerprint request) before anything else
\* decides; when Modrinth has given a verdict, that verdict is the one
\* recorded and the DeEarth API has not decided; the DeEarth API is asked
\* only when Modrinth gave none.
C28_DigestRegistryFirst ==
    /\ [][\A f \in ModFiles :
            StartsLookup(f) => dpc'[f] \in {"cf", "mr_version"}]_vars
    /\ [](\A f \in ModFiles :
            /\ (dpc[f] = "done" /\ flags[f].status = "ok" /\ cache.type = "dict"
                  /\ "mr_project" \in requests[f]) =>
                  /\ InCache(cache, f)
                  /\ cache.map[f] =
                        (IF ClientOnly(flags[f]) THEN "CLIENT" ELSE "UNIVERSAL")
            /\ "de" \in requests[f] =>
                  ("mr_version" \in requests[f] /\ answer[f] = "none"))

\* the step is the stretch of f that handles the 200 answer a registry gave
\* to the request for side information
SideAnswered(f) ==
    /\ dpc[f] \in {"mr_project", "de"}
    /\ dpc'[f] # dpc[f]
    /\ flags'[f].status = "ok"
    /\ cache.type = "dict"

C30_FingerprintIgnored ==
    \A f \in ModFiles :
        LET k == kind[f]
            Ids == {FingerprintModId(ModId(k), r) : r \in FingerprintResponses}
        IN /\ dpc[f] = "cf" =>
                 \A r1, r2 \in FingerprintResponses :
                     AfterFingerprint(f, k, mod_id[f], cache, r1)
                        = AfterFingerprint(f, k, mod_id[f], cache, r2)
           /\ dpc[f] \in {"mr_version", "mr_project"} => mod_id[f] \in Ids
           /\ dpc[f] = "mr_version" =>
                 \A id1, id2 \in Ids :
                     AfterVersionFile(f, k, id1, cache)
                        = AfterVersionFile(f, k, id2, cache)
           /\ dpc[f] = "mr_project" =>
                 \A id1, id2 \in Ids, a \in SideAnswers :
                     AfterProject(f, k, id1, cache, a)
                        = AfterProject(f, k, id2, cache, a)

\* in src/main.py the fingerprint of one jar matched and that of another one
\* did not; both calls went on to Modrinth and have ended, one with CLIENT
\* and the file in quarantine, one with a verdict of the local fallback
C30_Witness ==
    /\ revision = "main.py"
    /\ \E f, g \in Calls :
          /\ dpc[f] = "done" /\ dpc[g] = "done"
          /\ mod_id[f] = "cf_id" /\ mod_id[g] # "cf_id"
          /\ {"cf", "mr_version"} \subseteq requests[f]
          /\ {"cf", "mr_version"} \subseteq requests[g]
          /\ f \in rubbish /\ cache.map[f] = "CLIENT"
          /\ g \in mods /\ answer[g] = "none" /\ InCache(cache, g)

\* the step ends a registry lookup of f without a verdict: the fingerprint
\* request (which never gives one), a version_file request that is not
\* followed by the project request, a project request that fails
LookupFails(f) ==
    /\ run' = run
    /\ \/ dpc[f] = "cf" /\ dpc'[f] # "cf"
       \/ dpc[f] = "mr_version" /\ dpc'[f] \notin {"mr_version", "mr_project"}
       \/ dpc[f] = "mr_project" /\ dpc'[f] # "mr_project" /\ flags'[f] = NoAnswer

\* C31: a registry lookup that fails does not make deearth raise; the next
\* stage of the cascade runs (Modrinth after the fingerprint request, the
\* DeEarth API or the local fallback after Modrinth), a call that ends has
\* recorded a verdict for its file, and that verdict is CLIENT only by the
\* local rule.
C31_AdapterErrorsSwallowed ==
    [][\A f \in ModFiles :
          LookupFails(f) =>
              /\ result'[f] # "raised"
              /\ dpc[f] = "cf" => dpc'[f] = "mr_version"
              /\ dpc[f] # "cf" => dpc'[f] \in {"de", "done"}
              /\ dpc'[f] = "done" => InCache(cache', f)
              /\ is_client_side'[f] => ClientRule(kind[f])]_vars

\* the step is one synchronous stretch of the call of deearth on f
ActsOn(f) ==
    /\ run' = run
    /\ dpc[f] \notin {"idle", "done"}
    /\ dpc'[f] # dpc[f]

\* the next stretch of the call on f, run on the cache c: every outcome, with
\* the answer of the registry that leads to it
NextStretch(f, c) ==
    CASE dpc[f] = "pending" -> {<<"none", o>> : o \in Begin(f, kind[f], c)}
      [] dpc[f] = "cf" ->
           UNION {{<<r, o>> : o \in AfterFingerprint(f, kind[f], mod_id[f], c, r)} :
                     r \in FingerprintResponses}
      [] dpc[f] = "mr_version" ->
           {<<"none", o>> : o \in AfterVersionFile(f, kind[f], mod_id[f], c)}
      [] dpc[f] = "mr_project" ->
           UNION {{<<a, o>> : o \in AfterProject(f, kind[f], mod_id[f], c, a)} :
                     a \in SideAnswers}
      [] OTHER -> {}

\* what an outcome holds for f itself: the cache is cut down to the entry
\* of f
Own(f, io) ==
    <<io[1],
      [io[2] EXCEPT !.cache = IF InCache(io[2].cache, f)
                              THEN io[2].cache.map[f] ELSE "no entry"]>>

\* the cache with the entries of the other files changed: one of them
\* dropped, or set to any verdict
OtherEntries(f) ==
    IF cache.type # "dict" THEN {cache}
    ELSE {cache}
         \cup {Assign(cache, g, v) : g \in ModFiles \ {f}, v \in Verdicts}
         \cup {[cache EXCEPT !.map = [n \in DOMAIN cache.map \ {g} |-> cache.map[n]]] :
                  g \in ModFiles \ {f}}

\* C32: a stretch of the call of deearth on f leaves the cache entries of
\* the other files and the other files themselves as they are, and what it
\* does (its requests, its verdict, its move, its result) is the same
\* whatever the entries of the other files are.
C32_DisjointKeys ==
    /\ [](\A f \in ModFiles :
            \A c \in OtherEntries(f) :
               {Own(f, io) : io \in NextStretch(f, c)}
                  = {Own(f, io) : io \in NextStretch(f, cache)})
    /\ [][\A f \in ModFiles :
            ActsOn(f) =>
               /\ cache'.type = cache.type
               /\ \A g \in ModFiles \ {f} :
                     /\ InCache(cache', g) <=> InCache(cache, g)
                     /\ InCache(cache, g) => cache'.map[g] = cache.map[g]
                     /\ g \in mods' <=> g \in mods
                     /\ g \in rubbish' <=> g \in rubbish]_vars

\* the calls on two files of one batch have both asked Modrinth and have
\* ended, one with CLIENT recorded and its file moved, the other with
\* UNIVERSAL; the cache holds for each file the one verdict its own call wrote
C32_Witness ==
    \E f, g \in Calls :
        /\ f # g
        /\ dpc[f] = "done" /\ dpc[g] = "done"
        /\ "mr_project" \in requests[f] /\ "mr_project" \in requests[g]
        /\ Writes(effects[f]) = <<"CLIENT">> /\ Writes(effects[g]) = <<"UNIVERSAL">>
        /\ cache.map = (f :> "CLIENT") @@ (g :> "UNIVERSAL")
        /\ f \in rubbish /\ g \in mods

\* the display slots the jobs hold
HeldSlots == {task_id[j] : j \in {i \in Jobs : task_id[i] # 0}}

\* C33: once the slots are created, no display slot is held by two jobs, no
\* slot is both in worker_queue and held, no slot is twice in the queue, and
\* the slots in the queue plus the slots held are worker_count in number.
C33_SlotsConserved ==
    bpc # "called" /\ download_data # <<>> =>
        /\ \A i, j \in Jobs :
              (i # j /\ task_id[i] # 0) => task_id[i] # task_id[j]
        /\ \A n \in DOMAIN worker_queue : worker_queue[n] \notin HeldSlots
        /\ \A m, n \in DOMAIN worker_queue :
              m # n => worker_queue[m] # worker_queue[n]
        /\ Len(worker_queue) + Cardinality({j \in Jobs : task_id[j] # 0})
              = worker_count

\* of two slots, the first has come back to the queue from a job that
\* succeeded while another job, after a failed request, still holds the second
C33_Witness ==
    /\ bpc = "gather"
    /\ worker_count = 2
    /\ worker_queue = <<1>>
    /\ \E i, j \in Jobs :
          /\ pc[i] = "done" /\ outcome[i] = "success"
          /\ task_id[j] = 2 /\ InWorker(j) /\ lastfail[j] # "none"

\* C34: when fast_download has returned, every destination path that exists
\* either existed when it was called or is the destination of a job that
\* succeeded; a job that ended failed has left no file of its own.
C34_NoPartialFile ==
    bpc = "returned" =>
        \A p \in fs :
            \/ p \in fs0
            \/ \E j \in Jobs : download_data[j].dest = p /\ outcome[j] = "success"

\* C35: no two jobs of a batch are streaming into the same destination
\* path at the same time.
C35_OneWriterPerDestination ==
    \A i, j \in Jobs :
        (i # j /\ pc[i] = "streaming" /\ pc[j] = "streaming") =>
            download_data[i].dest # download_data[j].dest

\* the values of settings['deearth']['concurrency'] (config.py 16-18 and
\* 64-66); no statement of deearth_main reads the setting
ConcurrencySettings == 1 .. DeEarthPermits

\* the call on f is inside the semaphore block of process_mod
InProcessMod(f) == dpc[f] \in {"cf", "mr_version", "mr_project", "de"}

\* C36: whatever the configured classification concurrency is, at most that
\* many calls of deearth are running at the same time.
C36_ClassificationBound ==
    \A n \in ConcurrencySettings :
        Cardinality({f \in ModFiles : InProcessMod(f)}) <= n

\* the verdict the cache file holds for f, "no entry" when it holds none
Saved(f) ==
    IF cache_file.state = "object" /\ f \in DOMAIN cache_file.map
    THEN cache_file.map[f] ELSE "no entry"

\* C37: when deearth_main has saved the cache and returned, every jar it
\* listed is in the quarantine directory if the saved cache maps its name
\* to CLIENT and in the mods directory otherwise.
C37_CacheAgreesWithDisk ==
    mpc = "returned" =>
        \A f \in jar_files :
            /\ f \in rubbish <=> Saved(f) = "CLIENT"
            /\ f \notin rubbish => f \in mods
            /\ f \in rubbish => f \notin mods

\* a batch of two jars is saved: one was moved with CLIENT recorded, for the
\* other CLIENT was recorded, the move raised and the entry was overwritten
C37_Witness ==
    /\ mpc = "returned"
    /\ \E f, g \in jar_files :
          /\ f \in rubbish /\ Saved(f) = "CLIENT"
          /\ MoveRaised \in {effects[g][n] : n \in DOMAIN effects[g]}
          /\ g \in mods /\ Saved(g) \in {"UNIVERSAL", "UNKNOWN"}

TypeOK ==
    /\ semaphore \in 0 .. MaxConcurrency
    /\ main_task \in 0 .. MaxJobs
    /\ \A j \in Jobs : nreq[j] <= MaxRetries
    /\ faults \in 0 .. MaxFaults
====
